---- MODULE Spec2Model ----
(***************************************************************************)
(* Confidence-extraction pipelines of fun_with_folding:                    *)
(*   boltz_ipsae_boltz2.py  (Boltz-2: collect_ipsae -> overview.csv)       *)
(*   get_ipsae_AF3.py       (AF3: main -> overview_ipsae.tsv,              *)
(*                           high_ipsae_sequences.tsv)                     *)
(*   AF3_AB_iptm.py         (AF3 antibodies: main -> iptm_pass_binders.csv)*)
(*                                                                         *)
(* Floats are integers in hundredths (0.70 is 70).  A text file is the     *)
(* sequence of its non-empty lines, a line the sequence of its whitespace- *)
(* separated tokens, a token a string.  A name is a sequence of one-       *)
(* character strings.  A JSON/YAML value is a tagged record                *)
(* [t |-> "null"], [t |-> "num", v], [t |-> "str", v], [t |-> "list", v],  *)
(* [t |-> "dict", v] (v a function from keys), and [t |-> "malformed"] is  *)
(* a document the loader raises on.                                        *)
(***************************************************************************)
EXTENDS Integers, Sequences, FiniteSets, TLC

VARIABLES
    \* --- scorer-invocation step, called repeatedly on one working directory
    variant,     \* "boltz" | "AF3": whose run_ipsae is called
    wd,          \* the working directory: [pae, cif : BOOLEAN, out : file id]
    log,         \* one record per call made so far
    \* --- tabular score parsers
    table,       \* the scorer output file: a sequence of token lines
    parsed,      \* what the two parsers returned for it
    \* --- chain-sequence extractors
    doc,         \* a sequence-definition document
    extracted,   \* what the three extractors returned for it
    \* --- candidate enumeration
    listing,     \* directory names as the OS lists them
    ordered,     \* the two sorts' results
    \* --- upward search for the owning AB<n> directory
    start,       \* absolute start path: sequence of components below "/"
    max_up,      \* hop budget
    found,       \* find_binder_root's result
    \* --- a whole run of one pipeline
    pipeline,    \* "boltz" | "AF3" | "AB"
    tree,        \* the candidate tree on disk, in listing order
    queue,       \* the candidates in processing order
    idx,         \* number of candidates processed so far
    script,      \* whether ipsae.py is where the run looks for it
    rows,        \* rows / results accumulated in memory
    reports,     \* the report files written: file name -> rows
    trace,       \* per processed candidate: what the run printed about it
    pc           \* "start" | "loop" | "done" | "fatal" | "aborted"

scorerVars == <<variant, wd, log>>
parserVars == <<table, parsed>>
chainVars  == <<doc, extracted>>
sortVars   == <<listing, ordered>>
rootVars   == <<start, max_up, found>>
runVars    == <<pipeline, script, tree, queue, idx, rows, reports, trace, pc>>
vars == <<variant, wd, log, table, parsed, doc, extracted, listing, ordered,
          start, max_up, found, pipeline, script, tree, queue, idx, rows,
          reports, trace, pc>>

\* Each specification below drives one group of variables; the others rest.
IdleScorer == variant = "none" /\ wd = [pae |-> FALSE, cif |-> FALSE, out |-> "absent"]
              /\ log = <<>>
IdleParser == table = <<>> /\ parsed = [st |-> "idle"]
IdleChain  == doc = [t |-> "null"] /\ extracted = [st |-> "idle"]
IdleSort   == listing = <<>> /\ ordered = [st |-> "idle"]
IdleRoot   == start = <<>> /\ max_up = 0 /\ found = [st |-> "idle"]
IdleRun    == pipeline = "none" /\ script = FALSE /\ tree = <<>> /\ queue = <<>>
              /\ idx = 0 /\ rows = <<>> /\ reports = <<>> /\ trace = <<>>
              /\ pc = "idle"

\* ------------------------------------------------------------------------
\* Bounds of the model
\* ------------------------------------------------------------------------
MaxCalls == 4        \* calls of the scorer-invocation step on one directory
MaxRows == 2         \* data rows of a scorer output file
MaxEntries == 2      \* chain entries of a sequence-definition document
MaxDirs == 3         \* binder_* directories in one listing
MaxDepth == 7        \* components of a start path
MaxCands == 2        \* candidates of one run's tree

\* ------------------------------------------------------------------------
\* Shared values
\* ------------------------------------------------------------------------
None == "None"              \* Python's None as a returned path
Absent == "absent"          \* file id of a file that does not exist

\* ========================================================================
\* External scorer invocation
\* ========================================================================

\* d0_chn = d0_dom = 10; base = "input_model_0"
OutTxtBoltz == "input_model_0_10_10.txt"
TxtNameAF3 == "t0.3_seed-1_sample-0_model_10_10.txt"

\* The external process: it exits with some status and may or may not leave
\* the expected output file (writes = Absent: it leaves none).
subprocess_run(d, oc) ==
    [d EXCEPT !.out = IF oc.writes # Absent THEN oc.writes ELSE @]

\* Mutant: the output-presence test is dropped, the scorer always runs.
run_ipsae_boltz_nomemo(d, oc) ==
    IF ~d.pae \/ ~d.cif
    THEN [dir |-> d, invoked |-> FALSE, ret |-> None]
    ELSE LET d2 == subprocess_run(d, oc) IN
         IF oc.exit # 0
         THEN [dir |-> d2, invoked |-> TRUE, ret |-> None]
         ELSE IF d2.out = Absent
              THEN [dir |-> d2, invoked |-> TRUE, ret |-> None]
              ELSE [dir |-> d2, invoked |-> TRUE, ret |-> OutTxtBoltz]

\* boltz_ipsae_boltz2.run_ipsae: inputs are tested first, then the output.
run_ipsae_boltz(d, oc) ==
    IF ~d.pae \/ ~d.cif
    THEN [dir |-> d, invoked |-> FALSE, ret |-> None]
    ELSE IF d.out = Absent
         THEN LET d2 == subprocess_run(d, oc) IN
              IF oc.exit # 0
              THEN [dir |-> d2, invoked |-> TRUE, ret |-> None]
              ELSE IF d2.out = Absent
                   THEN [dir |-> d2, invoked |-> TRUE, ret |-> None]
                   ELSE [dir |-> d2, invoked |-> TRUE, ret |-> OutTxtBoltz]
         ELSE [dir |-> d, invoked |-> FALSE, ret |-> OutTxtBoltz]

\* get_ipsae_AF3.run_ipsae: the output is tested first, then the inputs; a
\* failing process is reported and nothing is returned either way.
run_ipsae_AF3(d, oc) ==
    IF d.out # Absent
    THEN [dir |-> d, invoked |-> FALSE]
    ELSE IF ~d.pae \/ ~d.cif
         THEN [dir |-> d, invoked |-> FALSE]
         ELSE [dir |-> subprocess_run(d, oc), invoked |-> TRUE]

\* Mutant: exit status 0 is taken as proof that the output is there.
ensure_scored_AF3_trustexit(d, oc) ==
    LET r == run_ipsae_AF3(d, oc) IN
    [dir |-> r.dir, invoked |-> r.invoked,
     ret |-> IF r.dir.out # Absent \/ (r.invoked /\ oc.exit = 0)
             THEN TxtNameAF3 ELSE None]

\* get_ipsae_AF3.main, steps 1 and 2 up to the existence test: the path the
\* candidate goes on to parsing with, or None when it is skipped.
ensure_scored_AF3(d, oc) ==
    LET r == run_ipsae_AF3(d, oc) IN
    [dir |-> r.dir, invoked |-> r.invoked,
     ret |-> IF r.dir.out # Absent THEN TxtNameAF3 ELSE None]

ExpectedOut(v) == IF v = "boltz" THEN OutTxtBoltz ELSE TxtNameAF3

\* What the external process can do in the scorer specification.
ScorerOutcomes == [exit : {0, 1}, writes : {Absent, "scores"}]

InitScorer ==
    /\ variant \in {"boltz", "AF3"}
    /\ wd \in [pae : BOOLEAN, cif : BOOLEAN, out : {Absent, "scores"}]
    /\ log = <<>>
    /\ IdleParser /\ IdleChain /\ IdleSort /\ IdleRoot /\ IdleRun

LogEntry(r) ==
    [before |-> wd, invoked |-> r.invoked, ret |-> r.ret]

CallRunIpsaeBoltz ==
    /\ variant = "boltz"
    /\ Len(log) < MaxCalls
    /\ \E oc \in ScorerOutcomes :
         LET r == run_ipsae_boltz(wd, oc) IN
         /\ wd' = r.dir
         /\ log' = Append(log, LogEntry(r))
    /\ UNCHANGED <<variant, parserVars, chainVars, sortVars, rootVars, runVars>>

CallRunIpsaeAF3 ==
    /\ variant = "AF3"
    /\ Len(log) < MaxCalls
    /\ \E oc \in ScorerOutcomes :
         LET r == ensure_scored_AF3(wd, oc) IN
         /\ wd' = r.dir
         /\ log' = Append(log, LogEntry(r))
    /\ UNCHANGED <<variant, parserVars, chainVars, sortVars, rootVars, runVars>>

NextScorer == CallRunIpsaeBoltz \/ CallRunIpsaeAF3

SpecScorer == InitScorer /\ [][NextScorer]_vars

\* C1 (as claimed): whenever the expected output file exists before the call,
\* whether or not the inputs are there, the step starts no process and
\* yields the existing file's path.
C1_MemoizedWhateverInputs ==
    \A i \in DOMAIN log :
        log[i].before.out # Absent =>
            ~log[i].invoked /\ log[i].ret = ExpectedOut(variant)

FloatOf == ("0.40" :> 40) @@ ("0.50" :> 50) @@ ("0.70" :> 70) @@ ("0.75" :> 75)
           @@ ("0.90" :> 90) @@ ("10" :> 1000)
IsFloat(tok) == tok \in DOMAIN FloatOf
float(tok) == FloatOf[tok]

NoScore == [ok |-> FALSE, ipsae |-> 0, iptm |-> 0]
Score(a, b) == [ok |-> TRUE, ipsae |-> a, iptm |-> b]

\* boltz_ipsae_boltz2.parse_ipsae_max: the first line with at least 6 tokens,
\* not starting with Chn1, whose token 4 is "max" and whose token 5 parses
\* (0-based); None when there is none.  It returns the ipSAE alone.
RECURSIVE parse_ipsae_max(_)
parse_ipsae_max(lines) ==
    IF lines = <<>> THEN NoScore
    ELSE LET cols == Head(lines) IN
         IF cols[1] = "Chn1" \/ Len(cols) < 6
         THEN parse_ipsae_max(Tail(lines))
         ELSE IF cols[5] = "max" /\ IsFloat(cols[6])
              THEN Score(float(cols[6]), 0)
              ELSE parse_ipsae_max(Tail(lines))

\* list.index: the first position of name in header (1-based), 0 if absent.
RECURSIVE IndexFrom(_, _, _)
IndexFrom(header, name, i) ==
    IF i > Len(header) THEN 0
    ELSE IF header[i] = name THEN i
    ELSE IndexFrom(header, name, i + 1)
index(header, name) == IndexFrom(header, name, 1)

Max2(a, b) == IF a >= b THEN a ELSE b

\* First loop of parse_ipsae_and_iptm: the first row long enough whose Type
\* is "max" and whose ipSAE and ipTM_af both parse.
RECURSIVE find_max_row(_, _, _, _)
find_max_row(data, ipsae_idx, iptm_idx, type_idx) ==
    IF data = <<>> THEN NoScore
    ELSE LET cols == Head(data) IN
         IF Len(cols) < Max2(Max2(ipsae_idx, iptm_idx), type_idx)
         THEN find_max_row(Tail(data), ipsae_idx, iptm_idx, type_idx)
         ELSE IF cols[type_idx] = "max"
                 /\ IsFloat(cols[ipsae_idx]) /\ IsFloat(cols[iptm_idx])
              THEN Score(float(cols[ipsae_idx]), float(cols[iptm_idx]))
              ELSE find_max_row(Tail(data), ipsae_idx, iptm_idx, type_idx)

\* Second loop: the row with the largest ipSAE among the rows whose ipSAE and
\* ipTM_af both parse; the first one wins a tie.
RECURSIVE best_row(_, _, _, _)
best_row(data, ipsae_idx, iptm_idx, best) ==
    IF data = <<>> THEN best
    ELSE LET cols == Head(data) IN
         IF Len(cols) < Max2(ipsae_idx, iptm_idx)
            \/ ~IsFloat(cols[ipsae_idx]) \/ ~IsFloat(cols[iptm_idx])
         THEN best_row(Tail(data), ipsae_idx, iptm_idx, best)
         ELSE IF ~best.ok \/ float(cols[ipsae_idx]) > best.ipsae
              THEN best_row(Tail(data), ipsae_idx, iptm_idx,
                            Score(float(cols[ipsae_idx]), float(cols[iptm_idx])))
              ELSE best_row(Tail(data), ipsae_idx, iptm_idx, best)

\* Mutant: a file without a usable value is scored 0.0 instead of raising.
parse_ipsae_and_iptm_placeholder(lines) ==
    IF Len(lines) < 2 THEN Score(0, 0)
    ELSE LET header == lines[1]
             ipsae_idx == index(header, "ipSAE")
             iptm_idx == index(header, "ipTM_af")
             type_idx == index(header, "Type")
             data == Tail(lines)
         IN  IF ipsae_idx = 0 \/ iptm_idx = 0 \/ type_idx = 0 THEN Score(0, 0)
             ELSE LET m == find_max_row(data, ipsae_idx, iptm_idx, type_idx) IN
                  IF m.ok THEN m
                  ELSE best_row(data, ipsae_idx, iptm_idx, Score(0, 0))

\* get_ipsae_AF3.parse_ipsae_and_iptm; NoScore stands for the ValueError it
\* raises (fewer than two lines, a required column missing, no valid row).
parse_ipsae_and_iptm(lines) ==
    IF Len(lines) < 2 THEN NoScore
    ELSE LET header == lines[1]
             ipsae_idx == index(header, "ipSAE")
             iptm_idx == index(header, "ipTM_af")
             type_idx == index(header, "Type")
             data == Tail(lines)
         IN  IF ipsae_idx = 0 \/ iptm_idx = 0 \/ type_idx = 0 THEN NoScore
             ELSE LET m == find_max_row(data, ipsae_idx, iptm_idx, type_idx) IN
                  IF m.ok THEN m
                  ELSE best_row(data, ipsae_idx, iptm_idx, NoScore)

\* --- the files the parser specification reads ---------------------------
\* Column layouts: the scorer's usual one, two reorderings of it, and one
\* without the ipTM_af column.
StdHeader == <<"Chn1", "Chn2", "PAE", "Dist", "Type", "ipSAE", "ipTM_af">>
Headers == { StdHeader,
             <<"Chn1", "Chn2", "PAE", "Dist", "ipSAE", "Type", "ipTM_af">>,
             <<"Type", "ipSAE", "ipTM_af", "Chn1", "Chn2", "PAE", "Dist">>,
             <<"Chn1", "Chn2", "PAE", "Dist", "Type", "ipSAE">> }

\* A data row gives each column its token; keep is how many tokens of the
\* line survive (a truncated row keeps fewer than the header has).
RowSpecs == [Type : {"max", "asym"}, ipSAE : {"0.50", "0.70", "0.90", "NA"},
             ipTM_af : {"0.40", "NA"}, keep : {5, 7}]
Cell(r, col) ==
    CASE col = "Type" -> r.Type
      [] col = "ipSAE" -> r.ipSAE
      [] col = "ipTM_af" -> r.ipTM_af
      [] col = "Chn1" -> "A"
      [] col = "Chn2" -> "B"
      [] OTHER -> "10"
Min2(a, b) == IF a <= b THEN a ELSE b
Line(header, r) == [i \in 1..Min2(r.keep, Len(header)) |-> Cell(r, header[i])]
File(header, rs) == <<header>> \o [i \in 1..Len(rs) |-> Line(header, rs[i])]

RowSeqs == UNION {[1..n -> RowSpecs] : n \in 0..MaxRows}

NotParsed == [ok |-> FALSE, ipsae |-> 0, iptm |-> 0, called |-> FALSE]
Returned(r) == [ok |-> r.ok, ipsae |-> r.ipsae, iptm |-> r.iptm, called |-> TRUE]

InitParser ==
    /\ \E header \in Headers, rs \in RowSeqs : table = File(header, rs)
    /\ parsed = [st |-> "file", boltz |-> NotParsed, AF3 |-> NotParsed]
    /\ IdleScorer /\ IdleChain /\ IdleSort /\ IdleRoot /\ IdleRun

CallParseIpsaeMax ==
    /\ parsed.st = "file"
    /\ ~parsed.boltz.called
    /\ parsed' = [parsed EXCEPT !.boltz = Returned(parse_ipsae_max(table))]
    /\ UNCHANGED <<table, scorerVars, chainVars, sortVars, rootVars, runVars>>

CallParseIpsaeAndIptm ==
    /\ parsed.st = "file"
    /\ ~parsed.AF3.called
    /\ parsed' = [parsed EXCEPT !.AF3 = Returned(parse_ipsae_and_iptm(table))]
    /\ UNCHANGED <<table, scorerVars, chainVars, sortVars, rootVars, runVars>>

NextParser == CallParseIpsaeMax \/ CallParseIpsaeAndIptm

SpecParser == InitParser /\ [][NextParser]_vars

\* --- what the claims say about a file, read through its own header -------
DataRows == IF table = <<>> THEN <<>> ELSE Tail(table)
ColOf(name) == index(table[1], name)
HasCol(row, name) == ColOf(name) # 0 /\ Len(row) >= ColOf(name)
IsMaxRow(row) ==
    /\ HasCol(row, "Type") /\ row[ColOf("Type")] = "max"
    /\ HasCol(row, "ipSAE") /\ IsFloat(row[ColOf("ipSAE")])
MaxRowIdx == {i \in DOMAIN DataRows : IsMaxRow(DataRows[i])}
FirstMaxRow == DataRows[CHOOSE i \in MaxRowIdx : \A j \in MaxRowIdx : i <= j]
ParseableIpsae ==
    {float(DataRows[i][ColOf("ipSAE")]) :
        i \in {j \in DOMAIN DataRows : /\ HasCol(DataRows[j], "ipSAE")
                                       /\ IsFloat(DataRows[j][ColOf("ipSAE")])}}
SetMax(S) == CHOOSE x \in S : \A y \in S : y <= x

\* C3 (as claimed): for a file with a row of type max whose ipSAE parses,
\* each parser returns that row's ipSAE, whatever the other rows hold.
C3_MaxRowWins ==
    (parsed.st = "file" /\ MaxRowIdx # {}) =>
        LET v == float(FirstMaxRow[ColOf("ipSAE")]) IN
        /\ parsed.boltz.called => (parsed.boltz.ok /\ parsed.boltz.ipsae = v)
        /\ parsed.AF3.called => (parsed.AF3.ok /\ parsed.AF3.ipsae = v)

\* C4 (as claimed): for a file with no usable max row but some parseable
\* ipSAE, each parser returns the largest parseable ipSAE of the data rows.
C4_FallbackIsMaximum ==
    (parsed.st = "file" /\ MaxRowIdx = {} /\ ParseableIpsae # {}) =>
        LET v == SetMax(ParseableIpsae) IN
        /\ parsed.boltz.called => (parsed.boltz.ok /\ parsed.boltz.ipsae = v)
        /\ parsed.AF3.called => (parsed.AF3.ok /\ parsed.AF3.ipsae = v)

\* ========================================================================
\* Sequence extraction
\* ========================================================================

Null == [t |-> "null"]
Malformed == [t |-> "malformed"]
Str(s) == [t |-> "str", v |-> s]
List(q) == [t |-> "list", v |-> q]
Dict(f) == [t |-> "dict", v |-> f]
NoKeys == [k \in {} |-> Null]

isinstance(x, type) == x.t = type
\* "B" in ids, for ids a list
InList(chain, ids) == \E i \in DOMAIN ids.v : ids.v[i] = Str(chain)

\* What an extractor call comes to: a value, None, or an uncaught exception.
Got(b, c) == [st |-> "ok", b |-> b, c |-> c]
GotNone == [st |-> "none", b |-> Null, c |-> Null]
Raised == [st |-> "raise", b |-> Null, c |-> Null]

\* dict.get(key, default); .get on anything but a dict is an AttributeError,
\* which the callers below test for first.
get(d, key, default) == IF key \in DOMAIN d.v THEN d.v[key] ELSE default

\* AF3_AB_iptm.extract_BC_sequences, the loop: a scalar id becomes a one-
\* element list; the last entry naming B (C) gives heavy (light); the
\* sequence is taken as it is.  "B" in None is a TypeError.
RECURSIVE scan_BC(_, _, _)
scan_BC(entries, heavy, light) ==
    IF entries = <<>> THEN Got(heavy, light)
    ELSE LET entry == Head(entries) IN
         IF ~isinstance(entry, "dict") THEN Raised
         ELSE LET prot == get(entry, "protein", Dict(NoKeys)) IN
              IF ~isinstance(prot, "dict") THEN Raised
              ELSE LET raw == get(prot, "id", List(<<>>))
                       ids == IF isinstance(raw, "str") THEN List(<<raw>>) ELSE raw
                       seq == get(prot, "sequence", Str(""))
                   IN  IF ~isinstance(ids, "list") THEN Raised
                       ELSE scan_BC(Tail(entries),
                                IF InList("B", ids) THEN seq ELSE heavy,
                                IF InList("C", ids) THEN seq ELSE light)

\* AF3_AB_iptm.extract_BC_sequences on the document of json_path.
extract_BC_sequences(data) ==
    IF isinstance(data, "malformed") THEN Raised
    ELSE IF ~isinstance(data, "dict") THEN Raised
    ELSE LET sequences == get(data, "sequences", List(<<>>)) IN
         IF ~isinstance(sequences, "list") THEN Raised
         ELSE scan_BC(sequences.v, Str(""), Str(""))

\* get_ipsae_AF3.find_chain_b_sequence, the loop over one file's entries:
\* only a list id is looked into.
RECURSIVE scan_B_AF3(_)
scan_B_AF3(entries) ==
    IF entries = <<>> THEN GotNone
    ELSE LET entry == Head(entries) IN
         IF ~isinstance(entry, "dict") THEN Raised
         ELSE LET protein == get(entry, "protein", Dict(NoKeys)) IN
              IF ~isinstance(protein, "dict") THEN Raised
              ELSE LET ids == get(protein, "id", List(<<>>))
                       seq == get(protein, "sequence", Null)
                   IN  IF isinstance(ids, "list") /\ InList("B", ids)
                          /\ isinstance(seq, "str")
                       THEN Got(seq, Null)
                       ELSE scan_B_AF3(Tail(entries))

\* get_ipsae_AF3.find_chain_b_sequence over the .json files of the binder
\* directory, in listing order: a file that does not load, is no dict or
\* has no list under "sequences" is passed over.
RECURSIVE find_chain_b_sequence(_)
find_chain_b_sequence(jsons) ==
    IF jsons = <<>> THEN GotNone
    ELSE LET data == Head(jsons) IN
         IF isinstance(data, "malformed") \/ ~isinstance(data, "dict")
         THEN find_chain_b_sequence(Tail(jsons))
         ELSE LET sequences == get(data, "sequences", Null) IN
              IF ~isinstance(sequences, "list")
              THEN find_chain_b_sequence(Tail(jsons))
              ELSE LET r == scan_B_AF3(sequences.v) IN
                   IF r.st = "none" THEN find_chain_b_sequence(Tail(jsons))
                   ELSE r

\* boltz_ipsae_boltz2.parse_chain_b_sequence, the loop: a list id is mapped
\* through str, a scalar id becomes [str(pid)], None becomes [].
RECURSIVE scan_B_boltz(_)
scan_B_boltz(entries) ==
    IF entries = <<>> THEN GotNone
    ELSE LET entry == Head(entries) IN
         IF ~isinstance(entry, "dict") THEN Raised
         ELSE LET protein == get(entry, "protein", Dict(NoKeys)) IN
              IF ~isinstance(protein, "dict") THEN Raised
              ELSE LET pid == get(protein, "id", Null)
                       ids == IF isinstance(pid, "list") THEN pid
                              ELSE IF isinstance(pid, "null") THEN List(<<>>)
                              ELSE List(<<pid>>)
                       seq == get(protein, "sequence", Null)
                   IN  IF InList("B", ids) /\ isinstance(seq, "str")
                       THEN Got(seq, Null)
                       ELSE scan_B_boltz(Tail(entries))

\* boltz_ipsae_boltz2.parse_chain_b_sequence on the document of input.yaml
\* ("absent": there is no such file).  Only the load is guarded: an empty
\* YAML file loads as None and None.get raises.
parse_chain_b_sequence(data) ==
    IF isinstance(data, "absent") \/ isinstance(data, "malformed") THEN GotNone
    ELSE IF ~isinstance(data, "dict") THEN Raised
    ELSE LET sequences == get(data, "sequences", List(<<>>)) IN
         IF ~isinstance(sequences, "list") THEN Raised
         ELSE scan_B_boltz(sequences.v)

\* --- the documents the extractor specification reads ---------------------
IdValues == {Str("A"), Str("B"), List(<<Str("B")>>), List(<<Str("A")>>),
             List(<<Str("B"), Str("C")>>), Str("C")}
SeqValues == {Str("MKV"), Str("EVQ"), Null}
Entry(id, seq) == Dict([protein |-> Dict([id |-> id, sequence |-> seq])])
Entries == {Entry(id, seq) : id \in IdValues, seq \in SeqValues}
           \cup {Dict([protein |-> Dict([sequence |-> Str("MKV")])])}
EntrySeqs == UNION {[1..n -> Entries] : n \in 0..MaxEntries}
Documents == {Dict([sequences |-> List(q)]) : q \in EntrySeqs}
             \cup {Malformed, Null, Dict(NoKeys), Dict([sequences |-> Null]),
                   Dict([sequences |-> List(<<Str("B")>>)]),
                   Dict([sequences |-> List(<<Dict([protein |-> Null])>>)])}

NotCalled == [st |-> "notcalled", b |-> Null, c |-> Null]

InitChain ==
    /\ doc \in Documents
    /\ extracted = [st |-> "doc", AF3 |-> NotCalled, boltz |-> NotCalled,
                    AB |-> NotCalled]
    /\ IdleScorer /\ IdleParser /\ IdleSort /\ IdleRoot /\ IdleRun

CallFindChainBSequence ==
    /\ extracted.st = "doc"
    /\ extracted.AF3.st = "notcalled"
    /\ extracted' = [extracted EXCEPT !.AF3 = find_chain_b_sequence(<<doc>>)]
    /\ UNCHANGED <<doc, scorerVars, parserVars, sortVars, rootVars, runVars>>

CallParseChainBSequence ==
    /\ extracted.st = "doc"
    /\ extracted.boltz.st = "notcalled"
    /\ extracted' = [extracted EXCEPT !.boltz = parse_chain_b_sequence(doc)]
    /\ UNCHANGED <<doc, scorerVars, parserVars, sortVars, rootVars, runVars>>

CallExtractBCSequences ==
    /\ extracted.st = "doc"
    /\ extracted.AB.st = "notcalled"
    /\ extracted' = [extracted EXCEPT !.AB = extract_BC_sequences(doc)]
    /\ UNCHANGED <<doc, scorerVars, parserVars, sortVars, rootVars, runVars>>

NextChain ==
    CallFindChainBSequence \/ CallParseChainBSequence \/ CallExtractBCSequences

SpecChain == InitChain /\ [][NextChain]_vars

\* --- the two encodings of chain B's identifier ---------------------------
ReencodeId(id, to) ==
    IF id = Str("B") \/ id = List(<<Str("B")>>) THEN to ELSE id
ReencodeProtein(prot, to) ==
    IF isinstance(prot, "dict") /\ "id" \in DOMAIN prot.v
    THEN Dict([prot.v EXCEPT !["id"] = ReencodeId(@, to)])
    ELSE prot
ReencodeEntry(entry, to) ==
    IF isinstance(entry, "dict") /\ "protein" \in DOMAIN entry.v
    THEN Dict([entry.v EXCEPT !["protein"] = ReencodeProtein(@, to)])
    ELSE entry
Reencode(data, to) ==
    IF /\ isinstance(data, "dict") /\ "sequences" \in DOMAIN data.v
       /\ isinstance(data.v["sequences"], "list")
    THEN Dict([data.v EXCEPT !["sequences"] =
                 List([i \in DOMAIN @.v |-> ReencodeEntry(@.v[i], to)])])
    ELSE data
AsScalar(data) == Reencode(data, Str("B"))
AsList(data) == Reencode(data, List(<<Str("B")>>))

\* C6 (as claimed): each extractor's result is the one it gives when chain
\* B's id is written as the scalar "B" and the one it gives when it is
\* written as the list ["B"].
C6_ScalarOrListId ==
    extracted.st = "doc" =>
        /\ extracted.AF3.st # "notcalled" =>
             /\ extracted.AF3 = find_chain_b_sequence(<<AsScalar(doc)>>)
             /\ extracted.AF3 = find_chain_b_sequence(<<AsList(doc)>>)
        /\ extracted.boltz.st # "notcalled" =>
             /\ extracted.boltz = parse_chain_b_sequence(AsScalar(doc))
             /\ extracted.boltz = parse_chain_b_sequence(AsList(doc))
        /\ extracted.AB.st # "notcalled" =>
             /\ extracted.AB = extract_BC_sequences(AsScalar(doc))
             /\ extracted.AB = extract_BC_sequences(AsList(doc))

\* ========================================================================
\* Candidate enumeration: the two natural sorts
\* ========================================================================

DigitVal == ("0" :> 0) @@ ("1" :> 1) @@ ("2" :> 2) @@ ("3" :> 3) @@ ("4" :> 4)
            @@ ("5" :> 5) @@ ("6" :> 6) @@ ("7" :> 7) @@ ("8" :> 8) @@ ("9" :> 9)
IsDigit(ch) == ch \in DOMAIN DigitVal
\* Code points of the characters names are written with.
Ord == ("0" :> 48) @@ ("1" :> 49) @@ ("2" :> 50) @@ ("3" :> 51) @@ ("4" :> 52)
       @@ ("5" :> 53) @@ ("6" :> 54) @@ ("7" :> 55) @@ ("8" :> 56) @@ ("9" :> 57)
       @@ ("A" :> 65) @@ ("B" :> 66) @@ ("_" :> 95) @@ ("a" :> 97) @@ ("b" :> 98)
       @@ ("d" :> 100) @@ ("e" :> 101) @@ ("i" :> 105) @@ ("n" :> 110)
       @@ ("r" :> 114) @@ ("s" :> 115) @@ ("x" :> 120)
\* str.lower(), one character
LowerCh(ch) == IF ch = "A" THEN "a" ELSE IF ch = "B" THEN "b" ELSE ch
lower(str) == [i \in DOMAIN str |-> LowerCh(str[i])]
\* str.isdigit(): non-empty and all digits
isdigit(str) == str # <<>> /\ \A i \in DOMAIN str : IsDigit(str[i])
\* int() of a digit string
RECURSIVE int(_)
int(str) ==
    IF str = <<>> THEN 0
    ELSE 10 * int(SubSeq(str, 1, Len(str) - 1)) + DigitVal[str[Len(str)]]

\* str < str: by code point, a proper prefix first
RECURSIVE StrLess(_, _)
StrLess(a, b) ==
    IF b = <<>> THEN FALSE
    ELSE IF a = <<>> THEN TRUE
    ELSE IF Head(a) # Head(b) THEN Ord[Head(a)] < Ord[Head(b)]
    ELSE StrLess(Tail(a), Tail(b))

IntKey(n) == [k |-> "int", n |-> n, s |-> <<>>]
StrKey(str) == [k |-> "str", n |-> 0, s |-> str]
\* key < key for two keys of one kind
ElemLess(a, b) == IF a.k = "int" THEN a.n < b.n ELSE StrLess(a.s, b.s)

\* re.search(r"(\d+)$", name).group(1): the digits name ends with
RECURSIVE TrailingDigits(_)
TrailingDigits(name) ==
    IF name = <<>> \/ ~IsDigit(name[Len(name)]) THEN <<>>
    ELSE Append(TrailingDigits(SubSeq(name, 1, Len(name) - 1)), name[Len(name)])

\* Mutant: the key is the raw name, so the order is lexical.
natural_binder_sort_key_lexical(name) == StrKey(name)

\* boltz_ipsae_boltz2.natural_binder_sort_key: the trailing integer, or the
\* name itself when it ends with no digit.
natural_binder_sort_key(name) ==
    IF TrailingDigits(name) # <<>> THEN IntKey(int(TrailingDigits(name)))
    ELSE StrKey(name)

\* re.split(r"(\d+)", s): text, digits, text, ..., text (a text may be empty)
RECURSIVE SplitDigits(_, _, _, _)
SplitDigits(str, cur, inDigits, acc) ==
    IF str = <<>>
    THEN IF inDigits THEN acc \o <<cur, <<>>>> ELSE Append(acc, cur)
    ELSE IF IsDigit(Head(str)) = inDigits
         THEN SplitDigits(Tail(str), Append(cur, Head(str)), inDigits, acc)
         ELSE SplitDigits(Tail(str), <<Head(str)>>, ~inDigits, Append(acc, cur))
re_split(str) == SplitDigits(str, <<>>, FALSE, <<>>)

\* get_ipsae_AF3.natural_sort_key: the list of the parts, digits as integers
\* and text lower-cased.
natural_sort_key(str) ==
    LET parts == re_split(str) IN
    [i \in DOMAIN parts |-> IF isdigit(parts[i]) THEN IntKey(int(parts[i]))
                            ELSE StrKey(lower(parts[i]))]

\* list < list: the first differing elements decide, a proper prefix is
\* less.  Names that start with binder_ give keys whose odd elements are
\* text and whose even elements are integers, so two elements in one place
\* are of one kind.
RECURSIVE ListLess(_, _)
ListLess(a, b) ==
    IF b = <<>> THEN FALSE
    ELSE IF a = <<>> THEN TRUE
    ELSE IF Head(a) # Head(b) THEN ElemLess(Head(a), Head(b))
    ELSE ListLess(Tail(a), Tail(b))

\* sorted()/list.sort(): stable; each name goes after the names already
\* placed whose key is not greater than its own.
RECURSIVE InsertBoltz(_, _)
InsertBoltz(name, out) ==
    IF out = <<>> THEN <<name>>
    ELSE IF ElemLess(natural_binder_sort_key(name),
                     natural_binder_sort_key(Head(out)))
         THEN <<name>> \o out
         ELSE <<Head(out)>> \o InsertBoltz(name, Tail(out))
RECURSIVE StableSortBoltz(_, _)
StableSortBoltz(names, out) ==
    IF names = <<>> THEN out
    ELSE StableSortBoltz(Tail(names), InsertBoltz(Head(names), out))

RECURSIVE InsertAF3(_, _)
InsertAF3(name, out) ==
    IF out = <<>> THEN <<name>>
    ELSE IF ListLess(natural_sort_key(name), natural_sort_key(Head(out)))
         THEN <<name>> \o out
         ELSE <<Head(out)>> \o InsertAF3(name, Tail(out))
RECURSIVE StableSortAF3(_, _)
StableSortAF3(names, out) ==
    IF names = <<>> THEN out
    ELSE StableSortAF3(Tail(names), InsertAF3(Head(names), out))

Sorted(names) == [st |-> "ok", names |-> names]
TypeError == [st |-> "raise", names |-> <<>>]

\* boltz_ipsae_boltz2.collect_ipsae, the sort of binder_dirs: an integer key
\* and a string key cannot be compared, and a sort of both has to compare
\* some such pair.
sorted_boltz(names) ==
    IF \E i, j \in DOMAIN names :
          natural_binder_sort_key(names[i]).k # natural_binder_sort_key(names[j]).k
    THEN TypeError
    ELSE Sorted(StableSortBoltz(names, <<>>))

\* get_ipsae_AF3.main, binder_dirs.sort(key=natural_sort_key)
sorted_AF3(names) == Sorted(StableSortAF3(names, <<>>))

\* --- the listings the enumeration specification reads --------------------
Prefix == <<"b", "i", "n", "d", "e", "r", "_">>
Suffixes == { <<"1">>, <<"2">>, <<"1", "0">>, <<"a">>, <<"B">>,
              <<"2", "x">>, <<"1", "0", "x">> }
DirNames == {Prefix \o suffix : suffix \in Suffixes}
\* os.listdir / iterdir give the names in any order, each once.
Listings ==
    UNION {{q \in [1..n -> DirNames] : \A i, j \in 1..n : i # j => q[i] # q[j]}
           : n \in 0..MaxDirs}

NotSorted == [st |-> "notcalled", names |-> <<>>]

InitSort ==
    /\ listing \in Listings
    /\ ordered = [st |-> "listing", boltz |-> NotSorted, AF3 |-> NotSorted]
    /\ IdleScorer /\ IdleParser /\ IdleChain /\ IdleRoot /\ IdleRun

SortBoltz ==
    /\ ordered.st = "listing"
    /\ ordered.boltz.st = "notcalled"
    /\ ordered' = [ordered EXCEPT !.boltz = sorted_boltz(listing)]
    /\ UNCHANGED <<listing, scorerVars, parserVars, chainVars, rootVars, runVars>>

SortAF3 ==
    /\ ordered.st = "listing"
    /\ ordered.AF3.st = "notcalled"
    /\ ordered' = [ordered EXCEPT !.AF3 = sorted_AF3(listing)]
    /\ UNCHANGED <<listing, scorerVars, parserVars, chainVars, rootVars, runVars>>

NextSort == SortBoltz \/ SortAF3

SpecSort == InitSort /\ [][NextSort]_vars

\* --- names of the form binder_<integer> ----------------------------------
SuffixOf(name) == SubSeq(name, Len(Prefix) + 1, Len(name))
IsBinderInt(name) == isdigit(SuffixOf(name))
NumericOrder(names) ==
    \A i, j \in DOMAIN names :
        (i < j /\ IsBinderInt(names[i]) /\ IsBinderInt(names[j])) =>
            int(SuffixOf(names[i])) <= int(SuffixOf(names[j]))
Binder(suffix) == Prefix \o suffix

\* C7: whenever a pipeline's sort of the binder_* directories returns, the
\* directories named binder_<integer> stand in it by the numeric value of
\* the integer (binder_2 before binder_10), not lexically.
C7_NumericOrder ==
    ordered.st = "listing" =>
        /\ ordered.boltz.st = "ok" => NumericOrder(ordered.boltz.names)
        /\ ordered.AF3.st = "ok" => NumericOrder(ordered.AF3.names)

\* C7 witness: binder_1, binder_10, binder_2 come out as binder_1,
\* binder_2, binder_10 of both sorts.
C7_Witness ==
    /\ listing = <<Binder(<<"1">>), Binder(<<"1", "0">>), Binder(<<"2">>)>>
    /\ ordered.boltz = Sorted(<<Binder(<<"1">>), Binder(<<"2">>), Binder(<<"1", "0">>)>>)
    /\ ordered.AF3 = Sorted(<<Binder(<<"1">>), Binder(<<"2">>), Binder(<<"1", "0">>)>>)

\* ========================================================================
\* Upward search for the owning AB<n> directory
\* ========================================================================

\* find_binder_root's default max_up
DefaultMaxUp == 6

\* BINDER_REGEX = ^AB\d+$ matched against a base name
BINDER_REGEX_match(name) ==
    /\ Len(name) >= 3
    /\ name[1] = "A" /\ name[2] = "B"
    /\ \A i \in 3..Len(name) : IsDigit(name[i])

\* os.path.basename and os.path.dirname of an absolute path, which is the
\* sequence of its components; <<>> is "/", whose base name is empty and
\* whose parent is itself.
basename(path) == IF path = <<>> THEN <<>> ELSE path[Len(path)]
dirname(path) == IF path = <<>> THEN <<>> ELSE SubSeq(path, 1, Len(path) - 1)

NoRoot == [st |-> "none", path |-> <<>>]
Root(path) == [st |-> "ok", path |-> path]

\* The loop of find_binder_root with n iterations left.
RECURSIVE walk_up(_, _)
walk_up(cur, n) ==
    IF n = 0 THEN NoRoot
    ELSE IF BINDER_REGEX_match(basename(cur)) THEN Root(cur)
    ELSE IF dirname(cur) = cur THEN NoRoot
    ELSE walk_up(dirname(cur), n - 1)

\* Mutant: the loop runs once more, so the directory max_up hops up is
\* tested too.
find_binder_root_onemore(path, n) == walk_up(path, n + 1)

\* AF3_AB_iptm.find_binder_root(start, max_up)
find_binder_root(path, n) == walk_up(path, n)

\* --- the paths the search specification starts from ----------------------
Components == { <<"A", "B", "1", "2">>, <<"A", "B">>, <<"s">> }
Paths == UNION {[1..n -> Components] : n \in 0..MaxDepth}

InitRoot ==
    /\ start \in Paths
    /\ max_up \in 0..DefaultMaxUp
    /\ found = [st |-> "notcalled", path |-> <<>>]
    /\ IdleScorer /\ IdleParser /\ IdleChain /\ IdleSort /\ IdleRun

CallFindBinderRoot ==
    /\ found.st = "notcalled"
    /\ found' = find_binder_root(start, max_up)
    /\ UNCHANGED <<start, max_up, scorerVars, parserVars, chainVars, sortVars, runVars>>

NextRoot == CallFindBinderRoot

SpecRoot == InitRoot /\ [][NextRoot]_vars

\* --- the matching directories above a start path -------------------------
\* Ancestor(k) is the directory k hops above the start (k = 0: the start).
Ancestor(k) == SubSeq(start, 1, Len(start) - k)
MatchHops == {k \in 0..(Len(start) - 1) : BINDER_REGEX_match(start[Len(start) - k])}
NearestHops == CHOOSE k \in MatchHops : \A m \in MatchHops : k <= m

\* C8: the budget max_up counts the directories tested, the start included.
\* When the nearest directory named AB<digits> on the way up is among them
\* (fewer than max_up hops up), it is returned; when it lies beyond them, or
\* there is none up to the filesystem root, the result is none.
C8_NearestWithinBudget ==
    found.st # "notcalled" =>
        IF MatchHops # {} /\ NearestHops < max_up
        THEN found = Root(Ancestor(NearestHops))
        ELSE found = NoRoot

\* C8 witness: the nearest matching ancestor lies exactly one hop beyond the
\* directories the budget covers, and none is returned.
C8_Witness ==
    /\ found = NoRoot
    /\ MatchHops # {}
    /\ max_up > 0
    /\ NearestHops = max_up

\* ========================================================================
\* The three runs: discovery, per-candidate processing, report emission
\* ========================================================================

Num(n) == [t |-> "num", v |-> n]
NoFile == [t |-> "absent"]

\* --- what the candidate trees hold ---------------------------------------
\* Scorer output files, by file id.
ScoreRow(type, ipsae, iptm) ==
    [Type |-> type, ipSAE |-> ipsae, ipTM_af |-> iptm, keep |-> 7]
MaxFile(ipsae) ==
    File(StdHeader, <<ScoreRow("asym", "0.90", "0.40"), ScoreRow("max", ipsae, "0.40")>>)
OutFile(id) ==
    CASE id = "max50" -> MaxFile("0.50")
      [] id = "max70" -> MaxFile("0.70")
      [] id = "max75" -> MaxFile("0.75")
      [] id = "max90" -> MaxFile("0.90")
      [] id = "nomax" -> File(StdHeader, <<ScoreRow("asym", "0.50", "0.40"),
                                            ScoreRow("asym", "0.90", "0.40")>>)
      [] id = "junk" -> <<StdHeader>>
      [] id = Absent -> <<>>      \* nothing to read: open() raises

\* Boltz confidence JSON files, by file id.
ConfDoc(id) ==
    CASE id = "iptm45" -> Dict([iptm |-> Num(45)])
      [] id = "protein40" -> Dict([protein_iptm |-> Num(40)])
      [] id = "nokeys" -> Dict(NoKeys)
      [] id = "text" -> Dict([iptm |-> Str("high")])
      [] id = "absent" -> NoFile

\* Boltz input.yaml files, by file id.
YamlDoc(id) ==
    CASE id = "chainsAB" -> Dict([sequences |->
                List(<<Entry(Str("A"), Str("MKV")), Entry(Str("B"), Str("EVQ"))>>)])
      [] id = "chainA" -> Dict([sequences |-> List(<<Entry(Str("A"), Str("MKV"))>>)])
      [] id = "empty" -> Null
      [] id = "absent" -> NoFile

\* The .json files of an AF3 binder directory, in listing order.
JsonFiles(id) ==
    CASE id = "listB" -> <<Dict([sequences |->
                List(<<Entry(List(<<Str("A")>>), Str("MKV")),
                       Entry(List(<<Str("B")>>), Str("EVQ"))>>)])>>
      [] id = "scalarB" -> <<Dict([sequences |-> List(<<Entry(Str("B"), Str("EVQ"))>>)])>>
      [] id = "badentry" -> <<Dict([sequences |-> List(<<Str("B")>>)])>>
      [] id = "none" -> <<>>

\* AF3_AB *_summary_confidences.json files, by file id.
SummaryDoc(id) ==
    CASE id = "iptm20" -> Dict([iptm |-> Num(20)])
      [] id = "iptm35" -> Dict([iptm |-> Num(35)])
      [] id = "iptm50" -> Dict([iptm |-> Num(50)])
      [] id = "noiptm" -> Dict(NoKeys)
      [] id = "text" -> Dict([iptm |-> Str("high")])
      [] id = "broken" -> Malformed

\* The .json files in the AB<n> directories of the AF3_AB tree.
AB1 == <<"A", "B", "1">>
AB2 == <<"A", "B", "2">>
AB3 == <<"A", "B", "3">>
AB10 == <<"A", "B", "1", "0">>
Sub == <<"s">>
RootJsons(name) ==
    CASE name = AB1 -> <<Malformed,
                         Dict([sequences |-> List(<<Entry(Str("B"), Str("EVQ")),
                                                    Entry(List(<<Str("C")>>), Str("DIQ"))>>)])>>
      [] name = AB2 -> <<Dict(NoKeys)>>
      [] name = AB3 -> <<Dict([sequences |-> List(<<Str("B")>>)])>>
      [] name = AB10 -> <<Dict([sequences |-> List(<<Entry(List(<<Str("B")>>), Str("QVQ"))>>)])>>
      [] OTHER -> <<>>

\* --- thresholds ----------------------------------------------------------
\* collect_ipsae's default threshold, 0.7
BoltzThreshold == 70
\* get_ipsae_AF3.main's cutoff, 0.75
HighThreshold == 75
\* AF3_AB_iptm's default --threshold, 0.35
IptmThreshold == 35

\* Mutant: the overview test is made strict.
passes_overview_strict(ipsae_val, threshold) == ipsae_val > threshold
\* boltz_ipsae_boltz2.collect_ipsae: if ipsae_val >= threshold
passes_overview(ipsae_val, threshold) == ipsae_val >= threshold
\* get_ipsae_AF3.main: if ipsae > 0.75
passes_high(ipsae) == ipsae > HighThreshold
\* AF3_AB_iptm.main: iptm <= args.threshold -> continue
passes_iptm(iptm, threshold) == ~(iptm <= threshold)

\* --- boltz_ipsae_boltz2 --------------------------------------------------
\* float(x) of a JSON value; anything float() raises on ends as None in
\* parse_iptm's except branch.
to_float(x) ==
    IF isinstance(x, "num") THEN x
    ELSE IF isinstance(x, "str") /\ IsFloat(x.v) THEN Num(float(x.v))
    ELSE Null

\* boltz_ipsae_boltz2.parse_iptm
parse_iptm(data) ==
    IF isinstance(data, "absent") THEN Null
    ELSE IF ~isinstance(data, "dict") THEN Null
    ELSE IF "iptm" \in DOMAIN data.v THEN to_float(data.v["iptm"])
    ELSE IF "protein_iptm" \in DOMAIN data.v THEN to_float(data.v["protein_iptm"])
    ELSE Null

\* What one pass of a run's loop comes to: the candidate's directory after
\* it, whether the scorer ran, the path the scorer step gave, whether the
\* scorer output was parsed, the metric, the rows appended, and how it ended
\* ("raise": an exception nothing catches).
Pass(d, inv, path, prs, m, how, new) ==
    [dir |-> d, invoked |-> inv, ret |-> path, parsed |-> prs,
     metric |-> m, st |-> how, new |-> new]

\* boltz_ipsae_boltz2.collect_ipsae, the body of the loop over binder_dirs
collect_ipsae_body(c, oc, threshold) ==
    IF ~c.pred
    THEN Pass(c, FALSE, None, FALSE, Null, "no_pred_dir", <<>>)
    ELSE LET r == run_ipsae_boltz(c, oc) IN
         IF r.ret = None
         THEN Pass(r.dir, r.invoked, None, FALSE, Null, "no_output", <<>>)
         ELSE LET ipsae_val == parse_ipsae_max(OutFile(r.dir.out)) IN
              IF ~ipsae_val.ok
              THEN Pass(r.dir, r.invoked, r.ret, FALSE, Null, "no_ipsae", <<>>)
              ELSE LET iptm_val == parse_iptm(ConfDoc(c.conf))
                       seq_b == parse_chain_b_sequence(YamlDoc(c.yaml))
                   IN  IF seq_b.st = "raise"
                       THEN Pass(r.dir, r.invoked, r.ret, TRUE, Num(ipsae_val.ipsae),
                                 "raise", <<>>)
                       ELSE IF passes_overview(ipsae_val.ipsae, threshold)
                       THEN Pass(r.dir, r.invoked, r.ret, TRUE, Num(ipsae_val.ipsae),
                                 "row",
                                 <<[binder_id |-> c.name,
                                    ipSAE |-> Num(ipsae_val.ipsae),
                                    ipTM |-> iptm_val,
                                    sequence_B |-> seq_b.b]>>)
                       ELSE Pass(r.dir, r.invoked, r.ret, TRUE, Num(ipsae_val.ipsae),
                                 "below", <<>>)

\* --- get_ipsae_AF3 -------------------------------------------------------
\* get_ipsae_AF3.main, the body of the loop over binder_dirs
AF3_main_body(c, oc) ==
    IF ~c.work
    THEN Pass(c, FALSE, None, FALSE, Null, "no_work_dir", <<>>)
    ELSE LET r == ensure_scored_AF3(c, oc) IN
         IF r.ret = None
         THEN Pass(r.dir, r.invoked, None, FALSE, Null, "no_output", <<>>)
         ELSE LET p == parse_ipsae_and_iptm(OutFile(r.dir.out)) IN
              IF ~p.ok
              THEN Pass(r.dir, r.invoked, r.ret, FALSE, Null, "parse_failed", <<>>)
              ELSE LET seq_b == IF passes_high(p.ipsae)
                                THEN find_chain_b_sequence(JsonFiles(c.jsons))
                                ELSE GotNone
                   IN  IF seq_b.st = "raise"
                       THEN Pass(r.dir, r.invoked, r.ret, TRUE, Num(p.ipsae), "raise", <<>>)
                       ELSE Pass(r.dir, r.invoked, r.ret, TRUE, Num(p.ipsae), "row",
                                 <<[binder |-> c.name, ipSAE |-> Num(p.ipsae),
                                    ipTM_af |-> Num(p.iptm), seq_b |-> seq_b.b]>>)

\* get_ipsae_AF3.main, step 4: every result
overview_rows(results) ==
    [i \in DOMAIN results |->
        [binder |-> results[i].binder, ipSAE |-> results[i].ipSAE,
         ipTM_af |-> results[i].ipTM_af]]

\* get_ipsae_AF3.main, step 5: the results above the cutoff, a missing
\* sequence written as the empty string
RECURSIVE high_rows(_)
high_rows(results) ==
    IF results = <<>> THEN <<>>
    ELSE LET x == Head(results) IN
         IF passes_high(x.ipSAE.v)
         THEN <<[binder |-> x.binder, ipSAE |-> x.ipSAE, ipTM_af |-> x.ipTM_af,
                 chainB_sequence |-> IF x.seq_b = Null THEN Str("") ELSE x.seq_b]>>
              \o high_rows(Tail(results))
         ELSE high_rows(Tail(results))

\* --- AF3_AB_iptm ---------------------------------------------------------
\* AF3_AB_iptm.find_input_json: the first .json file of the directory that
\* loads and holds "sequences"; a file that raises is passed over.
RECURSIVE find_input_json(_)
find_input_json(jsons) ==
    IF jsons = <<>> THEN NoFile
    ELSE IF isinstance(Head(jsons), "dict") /\ "sequences" \in DOMAIN Head(jsons).v
         THEN Head(jsons)
         ELSE find_input_json(Tail(jsons))

\* AF3_AB_iptm.main, the body of the loop over the summary files that
\* os.walk comes by: f is [dir, conf], the file's directory and content.
\* json.load is not guarded, and str <= float is a TypeError.
AB_main_body(f, threshold) ==
    LET conf == SummaryDoc(f.conf) IN
    IF isinstance(conf, "malformed")
    THEN Pass(f, FALSE, None, FALSE, Null, "raise", <<>>)
    ELSE LET iptm == get(conf, "iptm", Null) IN
         IF isinstance(iptm, "null")
         THEN Pass(f, FALSE, None, FALSE, Null, "no_iptm", <<>>)
         ELSE IF ~isinstance(iptm, "num")
         THEN Pass(f, FALSE, None, FALSE, Null, "raise", <<>>)
         ELSE IF ~passes_iptm(iptm.v, threshold)
         THEN Pass(f, FALSE, None, TRUE, iptm, "below", <<>>)
         ELSE LET binder_root == find_binder_root(f.dir, DefaultMaxUp) IN
              IF binder_root.st = "none"
              THEN Pass(f, FALSE, None, TRUE, iptm, "no_root", <<>>)
              ELSE LET input_json == find_input_json(RootJsons(basename(binder_root.path))) IN
                   IF isinstance(input_json, "absent")
                   THEN Pass(f, FALSE, None, TRUE, iptm, "no_input_json", <<>>)
                   ELSE LET hl == extract_BC_sequences(input_json) IN
                        IF hl.st = "raise"
                        THEN Pass(f, FALSE, None, TRUE, iptm, "raise", <<>>)
                        ELSE Pass(f, FALSE, None, TRUE, iptm, "row",
                                  <<[binder |-> basename(binder_root.path),
                                     iptm |-> iptm,
                                     heavy_chain_B |-> hl.b,
                                     light_chain_C |-> hl.c]>>)

\* --- the trees a run starts on -------------------------------------------
BoltzDir(pred, pae, cif, out, conf, yaml) ==
    [pred |-> pred, pae |-> pae, cif |-> cif, out |-> out, conf |-> conf,
     yaml |-> yaml]
BoltzDirs ==
    { BoltzDir(FALSE, FALSE, FALSE, Absent, "absent", "chainsAB"),
      BoltzDir(TRUE, FALSE, TRUE, Absent, "iptm45", "chainsAB"),
      BoltzDir(TRUE, TRUE, FALSE, "max90", "iptm45", "chainsAB"),
      BoltzDir(TRUE, TRUE, TRUE, Absent, "iptm45", "chainsAB"),
      BoltzDir(TRUE, TRUE, TRUE, "max70", "protein40", "chainsAB"),
      BoltzDir(TRUE, TRUE, TRUE, "max90", "absent", "chainA"),
      BoltzDir(TRUE, TRUE, TRUE, "max50", "iptm45", "chainsAB"),
      BoltzDir(TRUE, TRUE, TRUE, "nomax", "iptm45", "chainsAB"),
      BoltzDir(TRUE, TRUE, TRUE, "max90", "nokeys", "absent"),
      BoltzDir(TRUE, TRUE, TRUE, "max90", "text", "chainsAB"),
      BoltzDir(TRUE, TRUE, TRUE, "max90", "iptm45", "empty") }

AF3Dir(work, pae, cif, out, jsons) ==
    [work |-> work, pae |-> pae, cif |-> cif, out |-> out, jsons |-> jsons]
AF3Dirs ==
    { AF3Dir(FALSE, FALSE, FALSE, Absent, "listB"),
      AF3Dir(TRUE, FALSE, TRUE, Absent, "listB"),
      AF3Dir(TRUE, TRUE, FALSE, "max90", "listB"),
      AF3Dir(TRUE, TRUE, TRUE, Absent, "listB"),
      AF3Dir(TRUE, TRUE, TRUE, "max75", "listB"),
      AF3Dir(TRUE, TRUE, TRUE, "max90", "scalarB"),
      AF3Dir(TRUE, TRUE, TRUE, "max50", "badentry"),
      AF3Dir(TRUE, TRUE, TRUE, "nomax", "none"),
      AF3Dir(TRUE, TRUE, TRUE, "junk", "listB"),
      AF3Dir(TRUE, TRUE, TRUE, "max90", "badentry") }

\* Summary files of the AF3_AB tree: the directory each lies in, and its
\* content.  One lies six hops below its AB directory.
Deep == <<AB1, Sub, Sub, Sub, Sub, Sub, Sub>>
SummaryFiles ==
    { [dir |-> <<AB1, Sub>>, conf |-> c] :
          c \in {"iptm20", "iptm35", "iptm50", "noiptm", "text", "broken"} }
    \cup { [dir |-> d, conf |-> "iptm50"] :
              d \in {<<AB1>>, <<AB2, Sub>>, <<AB3, Sub>>, <<AB10, Sub>>, <<Sub, Sub>>, Deep} }

RunNames == {Prefix \o suffix : suffix \in {<<"2">>, <<"1", "0">>, <<"a">>}}
Named(name, d) == [x \in {"name"} |-> name] @@ d
NameSeqs(n) == {q \in [1..n -> RunNames] : \A i, j \in 1..n : i # j => q[i] # q[j]}
Trees(dirs) ==
    UNION {{[i \in 1..n |-> Named(ns[i], ds[i])] : ns \in NameSeqs(n), ds \in [1..n -> dirs]}
           : n \in 0..MaxCands}
\* os.walk goes top-down: a directory's own files come before those of the
\* directories below it, and a subtree is finished before the next one is
\* entered; the order of sibling directories is the listing's, any order.
IsPrefix(a, b) == Len(a) <= Len(b) /\ SubSeq(b, 1, Len(a)) = a
TopDown(q) ==
    /\ \A i, j \in DOMAIN q :
          i < j => ~(IsPrefix(q[j].dir, q[i].dir) /\ q[j].dir # q[i].dir)
    /\ \A i, j, k \in DOMAIN q :
          (i < k /\ k < j) =>
              \A n \in 1..Len(q[i].dir) :
                  IsPrefix(SubSeq(q[i].dir, 1, n), q[j].dir)
                      => IsPrefix(SubSeq(q[i].dir, 1, n), q[k].dir)
WalkOrders == UNION {{q \in [1..n -> SummaryFiles] : TopDown(q)} : n \in 0..MaxCands}

\* AF3_AB_iptm starts no external process.
NoProcess == [exit |-> 0, writes |-> Absent]

\* What the external scorer can do in a run.
RunOutcomes == [exit : {0, 1}, writes : {Absent, "max90", "nomax"}]

InitRun ==
    /\ pipeline \in {"boltz", "AF3", "AB"}
    /\ script \in BOOLEAN
    /\ pipeline = "AB" => script
    /\ tree \in CASE pipeline = "boltz" -> Trees(BoltzDirs)
                  [] pipeline = "AF3" -> Trees(AF3Dirs)
                  [] pipeline = "AB" -> WalkOrders
    /\ queue = <<>> /\ idx = 0 /\ rows = <<>> /\ reports = <<>> /\ trace = <<>>
    /\ pc = "start"
    /\ IdleScorer /\ IdleParser /\ IdleChain /\ IdleSort /\ IdleRoot

NamesOf(t) == [i \in DOMAIN t |-> t[i].name]
IndexOfName(name) == CHOOSE i \in DOMAIN tree : tree[i].name = name
\* exit: the scorer's exit status, -1 when no process was started;
\* wrote: whether the process left the expected output file.
Printed(name, r, oc) ==
    [id |-> name, invoked |-> r.invoked, ret |-> r.ret, parsed |-> r.parsed,
     metric |-> r.metric, st |-> r.st,
     exit |-> IF r.invoked THEN oc.exit ELSE -1,
     wrote |-> r.invoked /\ oc.writes # Absent]

\* boltz_ipsae_boltz2.main and the head of collect_ipsae: the script must
\* exist, then the binder_* directories are listed and sorted.
StartBoltz ==
    /\ pc = "start" /\ pipeline = "boltz"
    /\ IF ~script THEN pc' = "fatal" /\ queue' = queue
       ELSE LET sorted == sorted_boltz(NamesOf(tree)) IN
            IF sorted.st = "raise" THEN pc' = "aborted" /\ queue' = queue
            ELSE pc' = "loop" /\ queue' = sorted.names
    /\ UNCHANGED <<pipeline, script, tree, idx, rows, reports, trace>>
    /\ UNCHANGED <<scorerVars, parserVars, chainVars, sortVars, rootVars>>

\* get_ipsae_AF3.main up to the loop
StartAF3 ==
    /\ pc = "start" /\ pipeline = "AF3"
    /\ IF ~script THEN pc' = "fatal" /\ queue' = queue
       ELSE pc' = "loop" /\ queue' = sorted_AF3(NamesOf(tree)).names
    /\ UNCHANGED <<pipeline, script, tree, idx, rows, reports, trace>>
    /\ UNCHANGED <<scorerVars, parserVars, chainVars, sortVars, rootVars>>

\* AF3_AB_iptm.main up to the loop: os.walk starts
StartAB ==
    /\ pc = "start" /\ pipeline = "AB"
    /\ pc' = "loop"
    /\ UNCHANGED <<pipeline, script, tree, queue, idx, rows, reports, trace>>
    /\ UNCHANGED <<scorerVars, parserVars, chainVars, sortVars, rootVars>>

\* One pass of collect_ipsae's loop.
StepBoltz ==
    /\ pc = "loop" /\ pipeline = "boltz" /\ idx < Len(queue)
    /\ \E oc \in RunOutcomes :
         LET i == IndexOfName(queue[idx + 1])
             r == collect_ipsae_body(tree[i], oc, BoltzThreshold)
         IN  /\ tree' = [tree EXCEPT ![i] = r.dir]
             /\ trace' = Append(trace, Printed(queue[idx + 1], r, oc))
             /\ rows' = rows \o r.new
             /\ idx' = idx + 1
             /\ pc' = IF r.st = "raise" THEN "aborted" ELSE "loop"
    /\ UNCHANGED <<pipeline, script, queue, reports>>
    /\ UNCHANGED <<scorerVars, parserVars, chainVars, sortVars, rootVars>>

\* One pass of get_ipsae_AF3.main's loop.
StepAF3 ==
    /\ pc = "loop" /\ pipeline = "AF3" /\ idx < Len(queue)
    /\ \E oc \in RunOutcomes :
         LET i == IndexOfName(queue[idx + 1])
             r == AF3_main_body(tree[i], oc)
         IN  /\ tree' = [tree EXCEPT ![i] = r.dir]
             /\ trace' = Append(trace, Printed(queue[idx + 1], r, oc))
             /\ rows' = rows \o r.new
             /\ idx' = idx + 1
             /\ pc' = IF r.st = "raise" THEN "aborted" ELSE "loop"
    /\ UNCHANGED <<pipeline, script, queue, reports>>
    /\ UNCHANGED <<scorerVars, parserVars, chainVars, sortVars, rootVars>>

\* One pass of AF3_AB_iptm.main's loop: the next summary file of the walk.
StepAB ==
    /\ pc = "loop" /\ pipeline = "AB" /\ idx < Len(tree)
    /\ LET r == AB_main_body(tree[idx + 1], IptmThreshold) IN
         /\ trace' = Append(trace, Printed(tree[idx + 1].dir, r, NoProcess))
         /\ rows' = rows \o r.new
         /\ idx' = idx + 1
         /\ pc' = IF r.st = "raise" THEN "aborted" ELSE "loop"
    /\ UNCHANGED <<pipeline, script, tree, queue, reports>>
    /\ UNCHANGED <<scorerVars, parserVars, chainVars, sortVars, rootVars>>

\* collect_ipsae, the end: overview.csv is written, with or without rows.
EmitBoltz ==
    /\ pc = "loop" /\ pipeline = "boltz" /\ idx = Len(queue)
    /\ reports' = [f \in {"overview.csv"} |-> rows]
    /\ pc' = "done"
    /\ UNCHANGED <<pipeline, script, tree, queue, idx, rows, trace>>
    /\ UNCHANGED <<scorerVars, parserVars, chainVars, sortVars, rootVars>>

\* get_ipsae_AF3.main, steps 4 and 5: both files are written.
EmitAF3 ==
    /\ pc = "loop" /\ pipeline = "AF3" /\ idx = Len(queue)
    /\ reports' = [f \in {"overview_ipsae.tsv", "high_ipsae_sequences.tsv"} |->
                      IF f = "overview_ipsae.tsv" THEN overview_rows(rows)
                      ELSE high_rows(rows)]
    /\ pc' = "done"
    /\ UNCHANGED <<pipeline, script, tree, queue, idx, rows, trace>>
    /\ UNCHANGED <<scorerVars, parserVars, chainVars, sortVars, rootVars>>

\* AF3_AB_iptm.main, the end: without rows nothing is written.
EmitAB ==
    /\ pc = "loop" /\ pipeline = "AB" /\ idx = Len(tree)
    /\ reports' = IF rows = <<>> THEN reports
                  ELSE [f \in {"iptm_pass_binders.csv"} |-> rows]
    /\ pc' = "done"
    /\ UNCHANGED <<pipeline, script, tree, queue, idx, rows, trace>>
    /\ UNCHANGED <<scorerVars, parserVars, chainVars, sortVars, rootVars>>

Next ==
    \/ StartBoltz \/ StepBoltz \/ EmitBoltz
    \/ StartAF3 \/ StepAF3 \/ EmitAF3
    \/ StartAB \/ StepAB \/ EmitAB

Spec == InitRun /\ [][Next]_vars

\* --- what the reports hold -----------------------------------------------
ReportRows(f) ==
    IF reports = <<>> THEN <<>>
    ELSE IF f \in DOMAIN reports THEN reports[f] ELSE <<>>
Listed(f, col, id) ==
    \E k \in DOMAIN ReportRows(f) : ReportRows(f)[k][col] = id
ReportFiles == {"overview.csv", "overview_ipsae.tsv", "high_ipsae_sequences.tsv",
                "iptm_pass_binders.csv"}
Written == UNION {{ReportRows(f)[k] : k \in DOMAIN ReportRows(f)} : f \in ReportFiles}
Cells(row, cols) == {row[col] : col \in cols \cap DOMAIN row}

\* The AB<n> directory a summary file belongs to, by name.
Owner(f) == find_binder_root(f.dir, DefaultMaxUp)
HasOwner(f) == Owner(f).st # "none"
OwnerName(f) == basename(Owner(f).path)
ListedAB(f, iptm) ==
    \E k \in DOMAIN ReportRows("iptm_pass_binders.csv") :
        /\ ReportRows("iptm_pass_binders.csv")[k].binder = OwnerName(f)
        /\ ReportRows("iptm_pass_binders.csv")[k].iptm = iptm
HasInputJson(f) == ~isinstance(find_input_json(RootJsons(OwnerName(f))), "absent")

\* C5 (as claimed): in a finished run a candidate whose metric was parsed is
\* in the overview-style report iff metric >= threshold, and in a
\* high-confidence report iff metric > threshold.
C5_ThresholdOperators ==
    pc = "done" =>
        \A k \in DOMAIN trace :
            trace[k].parsed =>
                CASE pipeline = "boltz" ->
                        Listed("overview.csv", "binder_id", trace[k].id)
                            <=> trace[k].metric.v >= BoltzThreshold
                  [] pipeline = "AF3" ->
                        Listed("high_ipsae_sequences.tsv", "binder", trace[k].id)
                            <=> trace[k].metric.v > HighThreshold
                  [] pipeline = "AB" ->
                        HasOwner(tree[k]) =>
                            (ListedAB(tree[k], trace[k].metric)
                                <=> trace[k].metric.v > IptmThreshold)

\* C5 (amended): in a finished run a candidate whose ipSAE was parsed is in
\* overview.csv iff ipSAE >= threshold and in high_ipsae_sequences.tsv iff
\* ipSAE > 0.75; a summary file whose iptm was read gives a row of
\* iptm_pass_binders.csv iff iptm > threshold and both its AB<n> directory
\* and an input JSON with "sequences" in it were found.
C5_ThresholdOperatorsWhereListed ==
    pc = "done" =>
        \A k \in DOMAIN trace :
            trace[k].parsed =>
                CASE pipeline = "boltz" ->
                        Listed("overview.csv", "binder_id", trace[k].id)
                            <=> trace[k].metric.v >= BoltzThreshold
                  [] pipeline = "AF3" ->
                        Listed("high_ipsae_sequences.tsv", "binder", trace[k].id)
                            <=> trace[k].metric.v > HighThreshold
                  [] pipeline = "AB" ->
                        IF HasOwner(tree[k]) /\ HasInputJson(tree[k])
                        THEN ListedAB(tree[k], trace[k].metric)
                                <=> trace[k].metric.v > IptmThreshold
                        ELSE trace[k].st # "row"

\* C5 witness: a finished Boltz run with one candidate whose ipSAE equals the
\* threshold, which overview.csv holds, and one below it, which it does not.
C5_Witness ==
    /\ pc = "done" /\ pipeline = "boltz"
    /\ \E k \in DOMAIN trace :
          /\ trace[k].parsed /\ trace[k].metric.v = BoltzThreshold
          /\ Listed("overview.csv", "binder_id", trace[k].id)
    /\ \E k \in DOMAIN trace :
          /\ trace[k].parsed /\ trace[k].metric.v < BoltzThreshold
          /\ ~Listed("overview.csv", "binder_id", trace[k].id)

\* Whether some data row of a scorer output file has an ipSAE that parses.
HasParseableIpsae(lines) ==
    /\ Len(lines) >= 2
    /\ LET c == index(lines[1], "ipSAE") IN
         /\ c # 0
         /\ \E i \in 2..Len(lines) : Len(lines[i]) >= c /\ IsFloat(lines[i][c])
\* Whether a Boltz confidence document yields a number.
YieldsNumber(data) ==
    /\ isinstance(data, "dict")
    /\ \/ "iptm" \in DOMAIN data.v /\ isinstance(data.v["iptm"], "num")
       \/ /\ "iptm" \notin DOMAIN data.v
          /\ "protein_iptm" \in DOMAIN data.v
          /\ isinstance(data.v["protein_iptm"], "num")
Candidate(name) == tree[CHOOSE i \in DOMAIN tree : tree[i].name = name]

\* C9 (as claimed): no written row has an empty cell in a numeric metric
\* column (ipSAE, ipTM, ipTM_af, iptm).
C9_NoEmptyMetricCell ==
    \A row \in Written :
        \A cell \in Cells(row, {"ipSAE", "ipTM", "ipTM_af", "iptm"}) :
            isinstance(cell, "num")

\* C9 (amended): no written row has an empty cell in ipSAE, ipTM_af or iptm,
\* and every row belongs to a candidate whose scorer output (whose summary
\* file, for iptm_pass_binders.csv) holds a value that parses; the ipTM cell
\* of overview.csv is empty exactly when the confidence document is missing
\* or yields no number.
C9_RequiredMetricsPresent ==
    /\ \A row \in Written :
          \A cell \in Cells(row, {"ipSAE", "ipTM_af", "iptm"}) :
              isinstance(cell, "num")
    /\ \A k \in DOMAIN ReportRows("overview.csv") :
          LET row == ReportRows("overview.csv")[k]
              c == Candidate(row.binder_id)
          IN  /\ c.out # Absent /\ HasParseableIpsae(OutFile(c.out))
              /\ isinstance(row.ipTM, "num") <=> YieldsNumber(ConfDoc(c.conf))
    /\ \A f \in {"overview_ipsae.tsv", "high_ipsae_sequences.tsv"} :
          \A k \in DOMAIN ReportRows(f) :
              LET c == Candidate(ReportRows(f)[k].binder) IN
              c.out # Absent /\ HasParseableIpsae(OutFile(c.out))
    /\ \A k \in DOMAIN ReportRows("iptm_pass_binders.csv") :
          \E i \in DOMAIN tree :
              /\ isinstance(SummaryDoc(tree[i].conf), "dict")
              /\ "iptm" \in DOMAIN SummaryDoc(tree[i].conf).v
              /\ SummaryDoc(tree[i].conf).v["iptm"]
                    = ReportRows("iptm_pass_binders.csv")[k].iptm

\* C9 witness: a finished AF3 run in which one candidate's scorer output has
\* no value that parses and is in neither report, next to a candidate that
\* is in the overview.
C9_Witness ==
    /\ pc = "done" /\ pipeline = "AF3"
    /\ \E k \in DOMAIN trace :
          /\ trace[k].st = "parse_failed"
          /\ ~Listed("overview_ipsae.tsv", "binder", trace[k].id)
          /\ ~Listed("high_ipsae_sequences.tsv", "binder", trace[k].id)
    /\ ReportRows("overview_ipsae.tsv") # <<>>

\* C10 (as claimed): once the scorer script is found the run never ends
\* before report emission, and a finished run has gone through every
\* candidate of the tree.
C10_RunCompletes ==
    /\ pc # "aborted"
    /\ pc = "done" =>
          Len(trace) = (IF pipeline = "AB" THEN Len(tree) ELSE Len(queue))

\* --- the scorer step within a run -----------------------------------------
\* The passes of a Boltz or AF3 run that reached the scorer-invocation step
\* (the working directory exists).
Reached == {k \in DOMAIN trace : pipeline \in {"boltz", "AF3"}
                                  /\ trace[k].st \notin {"no_pred_dir", "no_work_dir"}}
Dir(k) == Candidate(trace[k].id)
InputMissing(k) == ~Dir(k).pae \/ ~Dir(k).cif
HasRow(k) ==
    \/ Listed("overview.csv", "binder_id", trace[k].id)
    \/ Listed("overview_ipsae.tsv", "binder", trace[k].id)
    \/ Listed("high_ipsae_sequences.tsv", "binder", trace[k].id)
Skipped(k) ==
    /\ trace[k].ret = None /\ ~trace[k].parsed /\ trace[k].st = "no_output"
    /\ ~HasRow(k)

\* C11 (as claimed): a candidate whose working directory lacks a required
\* input file has no scorer process started, gets no output path and is
\* skipped without being parsed; the run goes on.
C11_MissingInputSkips ==
    \A k \in Reached :
        InputMissing(k) => (~trace[k].invoked /\ Skipped(k))

\* C12 (as claimed): a candidate whose scorer process exits with a non-zero
\* status gets no output path, is not parsed and has no report row; the run
\* goes on with the next candidate.
C12_NonZeroExitSkips ==
    \A k \in Reached :
        (trace[k].invoked /\ trace[k].exit # 0) => Skipped(k)

\* C13 (confirmed): a candidate whose scorer process exits with status 0 but
\* leaves no expected output file gets no output path, is not parsed and has
\* no report row.
C13_ExitZeroWithoutOutputFails ==
    \A k \in Reached :
        (trace[k].invoked /\ trace[k].exit = 0 /\ Dir(k).out = Absent) => Skipped(k)

\* C13 witness: a finished run whose first candidate's scorer exited with 0
\* and left nothing, which was skipped, and whose second candidate got a row.
C13_Witness ==
    /\ pc = "done" /\ Len(trace) = 2
    /\ 1 \in Reached /\ trace[1].invoked /\ trace[1].exit = 0
    /\ Dir(1).out = Absent /\ Skipped(1)
    /\ 2 \in Reached /\ HasRow(2)

\* --- column permutations ---------------------------------------------------
\* The file with columns i and j exchanged in the header and in every data
\* row.  Every permutation is a product of such exchanges, so a parser that
\* gives the same value after each exchange, for every file, gives the same
\* value after every permutation.
Swap(line, i, j) ==
    [k \in DOMAIN line |-> IF k = i THEN line[j] ELSE IF k = j THEN line[i] ELSE line[k]]
Permuted(i, j) == [n \in DOMAIN table |-> Swap(table[n], i, j)]
FullRows == \A n \in DOMAIN table : Len(table[n]) = Len(table[1])
SameValue(a, b) == a.ok = b.ok /\ (a.ok => (a.ipsae = b.ipsae /\ a.iptm = b.iptm))

\* C14 (as claimed): for a file whose rows all have the header's length,
\* exchanging two columns in the header and in every data row leaves the
\* value each parser returns unchanged.
C14_ColumnOrderIrrelevant ==
    (parsed.st = "file" /\ FullRows) =>
        \A i, j \in DOMAIN table[1] :
            /\ parsed.boltz.called =>
                  SameValue(parse_ipsae_max(Permuted(i, j)), parsed.boltz)
            /\ parsed.AF3.called =>
                  SameValue(parse_ipsae_and_iptm(Permuted(i, j)), parsed.AF3)

\* --- order and uniqueness of report rows ------------------------------------
\* The candidate id a row carries, and the integer it ends with.
IdOf(row) == IF "binder_id" \in DOMAIN row THEN row.binder_id ELSE row.binder
HasNumber(row) == TrailingDigits(IdOf(row)) # <<>>
NumberOf(row) == int(TrailingDigits(IdOf(row)))

\* C15 (as claimed): in every report written, of two rows whose candidate
\* ids end with an integer, the one with the smaller integer comes first.
C15_RowsInNaturalOrder ==
    \A f \in ReportFiles :
        \A i, j \in DOMAIN ReportRows(f) :
            (i < j /\ HasNumber(ReportRows(f)[i]) /\ HasNumber(ReportRows(f)[j])) =>
                NumberOf(ReportRows(f)[i]) <= NumberOf(ReportRows(f)[j])

\* --- enumeration of names without a trailing integer ------------------------
\* Numeric-suffixed names first, the others after them in the order of
\* their raw names.
IntegerLess(name) == TrailingDigits(name) = <<>>
RawOrderAfterNumbers(names) ==
    \A i, j \in DOMAIN names :
        i < j =>
            /\ ~(IntegerLess(names[i]) /\ ~IntegerLess(names[j]))
            /\ (IntegerLess(names[i]) /\ IntegerLess(names[j]))
                  => ~StrLess(names[j], names[i])

\* C16 (as claimed): for a listing in which some names have no trailing
\* integer, each pipeline's sort returns an order, in which every such name
\* comes after all numeric-suffixed names and these names stand among
\* themselves by string comparison of the raw names.
C16_SuffixlessNamesLast ==
    (ordered.st = "listing" /\ \E i \in DOMAIN listing : IntegerLess(listing[i])) =>
        /\ ordered.boltz.st # "notcalled" =>
              (ordered.boltz.st = "ok" /\ RawOrderAfterNumbers(ordered.boltz.names))
        /\ ordered.AF3.st # "notcalled" =>
              (ordered.AF3.st = "ok" /\ RawOrderAfterNumbers(ordered.AF3.names))

\* C17 (as claimed): no two rows of one report carry the same candidate id.
C17_OneRowPerCandidate ==
    \A f \in ReportFiles :
        \A i, j \in DOMAIN ReportRows(f) :
            i # j => IdOf(ReportRows(f)[i]) # IdOf(ReportRows(f)[j])

====
